---- MODULE Spec2Model ----
(***************************************************************************)
(* Model of RecruitmentAgent (src/main.py): the screening, job matching    *)
(* and interview stages, session memory, and the full_workflow             *)
(* orchestrator.                                                           *)
(*                                                                         *)
(* Strings that the code searches (resume text, job description, the       *)
(* keywords) are sequences of characters, so that lower() and the          *)
(* substring test are computed; a character outside ASCII is written       *)
(* "<U+XXXX>".  Scores are Python floats: IEEE-754 binary64 values, every  *)
(* operation rounded to nearest, ties to even.  A dict is a function whose *)
(* DOMAIN is the set of keys it holds.  Every datetime.now() takes the     *)
(* next reading of a clock that never runs backwards.                      *)
(***************************************************************************)
EXTENDS Integers, Sequences, FiniteSets, TLC

VARIABLES
    session_state,  \* self.session_state: stage key -> stage result
    ret,            \* outcome of the most recent call: value returned or exception raised
    log,            \* messages (INFO and above) logged by the most recent call
    produced,       \* the stage results the most recent call produced, in order
    now,            \* the latest reading of datetime.now()
    input           \* the arguments of the call made under the one-call specifications

vars == <<session_state, ret, log, produced, now, input>>

\* ------------------------------------------------------------------ bounds
MaxFrags == 2      \* fragments per resume text / job description
MaxTime == 1       \* the clock runs over 0..MaxTime
MaxSkills == 2     \* length of a candidate's skill list / a job's required_skills
MaxExp == 4        \* candidate experience_years in half years: 0, 0.5, .., MaxExp / 2
MaxYears == 2      \* job years_experience_required in 0..MaxYears
MaxJobs == 4       \* jobs in a catalog given to match_jobs alone
MaxCatalog == 2    \* jobs in a catalog given to full_workflow
MaxMissing == 1    \* keys left out of the candidate_data dict

\* ------------------------------------------------------- small utilities
ToSet(s) == {s[i] : i \in 1..Len(s)}

Min(a, b) == IF a <= b THEN a ELSE b

Max(a, b) == IF a >= b THEN a ELSE b

\* dict.get(key, default)
Get(d, key, default) == IF key \in DOMAIN d THEN d[key] ELSE default

RECURSIVE Concat(_)
Concat(pieces) == IF pieces = <<>> THEN <<>> ELSE Head(pieces) \o Concat(Tail(pieces))

\* ------------------------------------------------------ natural numbers
\* A natural number of any size: its digits to the base Limb, lowest first,
\* the highest not 0 (a float's 53-bit significand does not fit an integer
\* of the model checker).
LimbBits == 15

Limb == 2^LimbBits

RECURSIVE BigNorm(_)
BigNorm(a) ==
    IF a # <<>> /\ a[Len(a)] = 0 THEN BigNorm(SubSeq(a, 1, Len(a) - 1)) ELSE a

RECURSIVE BigOf(_)
BigOf(n) == IF n = 0 THEN <<>> ELSE <<n % Limb>> \o BigOf(n \div Limb)

\* a * c + carry, for a small c
RECURSIVE MulCarry(_, _, _)
MulCarry(a, c, carry) ==
    IF a = <<>> THEN BigOf(carry)
    ELSE LET t == Head(a) * c + carry
         IN  <<t % Limb>> \o MulCarry(Tail(a), c, t \div Limb)

BigMul(a, c) == BigNorm(MulCarry(a, c, 0))

RECURSIVE AddCarry(_, _, _)
AddCarry(a, b, carry) ==
    IF a = <<>> THEN MulCarry(b, 1, carry)
    ELSE IF b = <<>> THEN MulCarry(a, 1, carry)
    ELSE LET t == Head(a) + Head(b) + carry
         IN  <<t % Limb>> \o AddCarry(Tail(a), Tail(b), t \div Limb)

BigAdd(a, b) == BigNorm(AddCarry(a, b, 0))

\* quotient and remainder of a by a small d, from the highest digit down
RECURSIVE DivLimbs(_, _)
DivLimbs(a, d) ==
    IF a = <<>> THEN [quot |-> <<>>, rem |-> 0]
    ELSE LET high == DivLimbs(Tail(a), d)
             t == high.rem * Limb + Head(a)
         IN  [quot |-> <<t \div d>> \o high.quot, rem |-> t % d]

Normed(r) == [quot |-> BigNorm(r.quot), rem |-> r.rem]

BigDiv(a, d) == Normed(DivLimbs(a, d))

\* a * 2^s
BigShl(a, s) == BigMul([i \in 1..(s \div LimbBits) |-> 0] \o a, 2^(s % LimbBits))

\* a \div 2^s
BigShr(a, s) ==
    IF s \div LimbBits >= Len(a) THEN <<>>
    ELSE BigDiv(SubSeq(a, s \div LimbBits + 1, Len(a)), 2^(s % LimbBits)).quot

RECURSIVE BitLen(_)
BitLen(n) == IF n = 0 THEN 0 ELSE 1 + BitLen(n \div 2)

BigBitLen(a) == IF a = <<>> THEN 0 ELSE LimbBits * (Len(a) - 1) + BitLen(a[Len(a)])

BigOdd(a) == a # <<>> /\ a[1] % 2 = 1

BigLT(a, b) ==
    IF Len(a) # Len(b) THEN Len(a) < Len(b)
    ELSE \E i \in 1..Len(a) : a[i] < b[i] /\ \A j \in (i + 1)..Len(a) : a[j] = b[j]

\* ------------------------------------------------------- Python floats
\* A float that is not negative: man * 2^exp with man of exactly Precision
\* bits, or Zero.  Equal floats are equal records.
Precision == 53

Zero == [man |-> <<>>, exp |-> 0]

\* r * 2^e for an r of Precision bits, or of one bit more that ends in 0
Normal(r, e) ==
    IF BigBitLen(r) > Precision
    THEN [man |-> BigShr(r, 1), exp |-> e + 1]
    ELSE [man |-> r, exp |-> e]

\* kept, or the next number up: to nearest, ties to even
Nearest(kept, half, below) ==
    IF half /\ (below \/ BigOdd(kept)) THEN BigAdd(kept, <<1>>) ELSE kept

\* m without its s lowest bits (s > 0), rounded; guarded keeps the highest of them
Cut(m, guarded, s, e, inexact) ==
    Normal(Nearest(BigShr(guarded, 1), BigOdd(guarded),
                   inexact \/ BigShl(guarded, s - 1) # m),
           e + s)

\* m * 2^e rounded, for an m that has s bits more than Precision
Fitted(m, s, e, inexact) ==
    IF s <= 0 THEN [man |-> BigShl(m, -s), exp |-> e + s]
    ELSE Cut(m, BigShr(m, s - 1), s, e, inexact)

\* the float nearest to (m + f) * 2^e, ties to even, where 0 <= f < 1 and
\* f > 0 iff inexact (m has more than Precision bits when inexact)
Rounded(m, e, inexact) ==
    IF m = <<>> THEN Zero ELSE Fitted(m, BigBitLen(m) - Precision, e, inexact)

\* float(n) for an int n >= 0
FloatOf(n) == Rounded(BigOf(n), 0, FALSE)

\* x * c for a float x and an int c, 0 <= c < Limb
FloatMul(x, c) == Rounded(BigMul(x.man, c), x.exp, FALSE)

\* x / d for a float x and an int d, 0 < d < Limb / 2
Quotient(q, e) == Rounded(q.quot, e, q.rem # 0)

FloatDiv(x, d) ==
    Quotient(BigDiv(BigShl(x.man, BitLen(d) + 1), d), x.exp - (BitLen(d) + 1))

\* x + y
Sum(x, y, e) ==
    Rounded(BigAdd(BigShl(x.man, x.exp - e), BigShl(y.man, y.exp - e)), e, FALSE)

FloatAdd(x, y) ==
    IF x = Zero THEN y
    ELSE IF y = Zero THEN x
    ELSE Sum(x, y, Min(x.exp, y.exp))

\* x < y
FloatLT(x, y) ==
    IF y = Zero THEN FALSE
    ELSE IF x = Zero THEN TRUE
    ELSE x.exp < y.exp \/ (x.exp = y.exp /\ BigLT(x.man, y.man))

\* x <= y
FloatLE(x, y) == ~FloatLT(y, x)

\* min(x, y)
FloatMin(x, y) == IF FloatLT(y, x) THEN y ELSE x

\* half years as a float
Years(halves) == FloatDiv(FloatOf(halves), 2)

\* ------------------------------------------------------------- text
UpperAlpha == <<"A","B","C","D","E","F","G","H","I","J","K","L","M",
                "N","O","P","Q","R","S","T","U","V","W","X","Y","Z">>

LowerAlpha == <<"a","b","c","d","e","f","g","h","i","j","k","l","m",
                "n","o","p","q","r","s","t","u","v","w","x","y","z">>

\* The cased characters of Latin-1 Supplement and Latin Extended-A, OHM SIGN,
\* KELVIN SIGN and ANGSTROM SIGN, and the characters lower() gives for them
\* (KELVIN SIGN gives "k").  Texts of the model are over ASCII and these
\* blocks.
UpperLatin ==
    <<"<U+00C0>", "<U+00C1>", "<U+00C2>", "<U+00C3>", "<U+00C4>", "<U+00C5>",
      "<U+00C6>", "<U+00C7>", "<U+00C8>", "<U+00C9>", "<U+00CA>", "<U+00CB>",
      "<U+00CC>", "<U+00CD>", "<U+00CE>", "<U+00CF>", "<U+00D0>", "<U+00D1>",
      "<U+00D2>", "<U+00D3>", "<U+00D4>", "<U+00D5>", "<U+00D6>", "<U+00D8>",
      "<U+00D9>", "<U+00DA>", "<U+00DB>", "<U+00DC>", "<U+00DD>", "<U+00DE>",
      "<U+0100>", "<U+0102>", "<U+0104>", "<U+0106>", "<U+0108>", "<U+010A>",
      "<U+010C>", "<U+010E>", "<U+0110>", "<U+0112>", "<U+0114>", "<U+0116>",
      "<U+0118>", "<U+011A>", "<U+011C>", "<U+011E>", "<U+0120>", "<U+0122>",
      "<U+0124>", "<U+0126>", "<U+0128>", "<U+012A>", "<U+012C>", "<U+012E>",
      "<U+0132>", "<U+0134>", "<U+0136>", "<U+0139>", "<U+013B>", "<U+013D>",
      "<U+013F>", "<U+0141>", "<U+0143>", "<U+0145>", "<U+0147>", "<U+014A>",
      "<U+014C>", "<U+014E>", "<U+0150>", "<U+0152>", "<U+0154>", "<U+0156>",
      "<U+0158>", "<U+015A>", "<U+015C>", "<U+015E>", "<U+0160>", "<U+0162>",
      "<U+0164>", "<U+0166>", "<U+0168>", "<U+016A>", "<U+016C>", "<U+016E>",
      "<U+0170>", "<U+0172>", "<U+0174>", "<U+0176>", "<U+0178>", "<U+0179>",
      "<U+017B>", "<U+017D>", "<U+2126>", "<U+212A>", "<U+212B>">>

LowerLatin ==
    <<"<U+00E0>", "<U+00E1>", "<U+00E2>", "<U+00E3>", "<U+00E4>", "<U+00E5>",
      "<U+00E6>", "<U+00E7>", "<U+00E8>", "<U+00E9>", "<U+00EA>", "<U+00EB>",
      "<U+00EC>", "<U+00ED>", "<U+00EE>", "<U+00EF>", "<U+00F0>", "<U+00F1>",
      "<U+00F2>", "<U+00F3>", "<U+00F4>", "<U+00F5>", "<U+00F6>", "<U+00F8>",
      "<U+00F9>", "<U+00FA>", "<U+00FB>", "<U+00FC>", "<U+00FD>", "<U+00FE>",
      "<U+0101>", "<U+0103>", "<U+0105>", "<U+0107>", "<U+0109>", "<U+010B>",
      "<U+010D>", "<U+010F>", "<U+0111>", "<U+0113>", "<U+0115>", "<U+0117>",
      "<U+0119>", "<U+011B>", "<U+011D>", "<U+011F>", "<U+0121>", "<U+0123>",
      "<U+0125>", "<U+0127>", "<U+0129>", "<U+012B>", "<U+012D>", "<U+012F>",
      "<U+0133>", "<U+0135>", "<U+0137>", "<U+013A>", "<U+013C>", "<U+013E>",
      "<U+0140>", "<U+0142>", "<U+0144>", "<U+0146>", "<U+0148>", "<U+014B>",
      "<U+014D>", "<U+014F>", "<U+0151>", "<U+0153>", "<U+0155>", "<U+0157>",
      "<U+0159>", "<U+015B>", "<U+015D>", "<U+015F>", "<U+0161>", "<U+0163>",
      "<U+0165>", "<U+0167>", "<U+0169>", "<U+016B>", "<U+016D>", "<U+016F>",
      "<U+0171>", "<U+0173>", "<U+0175>", "<U+0177>", "<U+00FF>", "<U+017A>",
      "<U+017C>", "<U+017E>", "<U+03C9>", "k", "<U+00E5>">>

Upper == UpperAlpha \o UpperLatin

\* lower() of the characters it changes: one character each, but two for
\* LATIN CAPITAL LETTER I WITH DOT ABOVE
LowerOf ==
    [c \in ToSet(Upper) |->
        <<(LowerAlpha \o LowerLatin)[CHOOSE i \in 1..Len(Upper) : Upper[i] = c]>>]
    @@ ("<U+0130>" :> <<"i", "<U+0307>">>)

\* str.lower() on one character
LowerChar(c) == IF c \in DOMAIN LowerOf THEN LowerOf[c] ELSE <<c>>

\* str.lower()
Lower(text) == Concat([i \in 1..Len(text) |-> LowerChar(text[i])])

\* pat in text
Contains(text, pat) ==
    \E i \in 0..(Len(text) - Len(pat)) : SubSeq(text, i + 1, i + Len(pat)) = pat

\* the keyword list of _extract_skills and _extract_job_requirements
keywords == <<"Python", "Java", "Machine Learning", "Data Analysis",
              "Cloud", "SQL", "API", "Docker">>

\* the characters of each keyword
Chars ==
    ("Python" :> <<"P","y","t","h","o","n">>) @@
    ("Java" :> <<"J","a","v","a">>) @@
    ("Machine Learning" :>
        <<"M","a","c","h","i","n","e"," ","L","e","a","r","n","i","n","g">>) @@
    ("Data Analysis" :> <<"D","a","t","a"," ","A","n","a","l","y","s","i","s">>) @@
    ("Cloud" :> <<"C","l","o","u","d">>) @@
    ("SQL" :> <<"S","Q","L">>) @@
    ("API" :> <<"A","P","I">>) @@
    ("Docker" :> <<"D","o","c","k","e","r">>)

\* keyword.lower()
LowerKeyword == [keyword \in DOMAIN Chars |-> Lower(Chars[keyword])]

\* keyword.lower() in text.lower(), given text.lower()
KeywordIn(lowered, keyword) == Contains(lowered, LowerKeyword[keyword])

_extract_skills(resume_text) ==
    LET lowered == Lower(resume_text)
    IN  SelectSeq(keywords, LAMBDA keyword : KeywordIn(lowered, keyword))

_extract_job_requirements(job_description) ==
    LET lowered == Lower(job_description)
    IN  SelectSeq(keywords, LAMBDA keyword : KeywordIn(lowered, keyword))

\* ------------------------------------------------------------- scorer
_calculate_match_score(candidate_skills, required_skills) ==
    IF required_skills = <<>>
    THEN Zero
    ELSE LET matches == Cardinality(ToSet(candidate_skills) \cap ToSet(required_skills))
         IN  FloatMul(FloatDiv(FloatOf(matches), Len(required_skills)), 100)

\* mutant: a score of exactly 50 is rejected
Recommendation_Above50(match_score) ==
    IF FloatLE(FloatOf(70), match_score) THEN "PASS"
    ELSE IF FloatLT(FloatOf(50), match_score) THEN "REVIEW"
    ELSE "REJECT"

Recommendation(match_score) ==
    IF FloatLE(FloatOf(70), match_score) THEN "PASS"
    ELSE IF FloatLE(FloatOf(50), match_score) THEN "REVIEW"
    ELSE "REJECT"

skill_match(candidate, job) ==
    LET required == Get(job, "required_skills", <<>>)
    IN  FloatDiv(FloatOf(Cardinality(ToSet(candidate.skills) \cap ToSet(required))),
                 Max(1, Len(required)))

\* mutant: the experience ratio is not capped at 1.0
exp_match_Uncapped(candidate, job) ==
    FloatDiv(candidate.experience_years,
             Max(1, Get(job, "years_experience_required", 1)))

exp_match(candidate, job) ==
    FloatMin(FloatOf(1),
             FloatDiv(candidate.experience_years,
                      Max(1, Get(job, "years_experience_required", 1))))

\* mutant: the two weights are swapped
_calculate_job_fit_Swapped(candidate, job) ==
    FloatAdd(FloatMul(skill_match(candidate, job), 40),
             FloatMul(exp_match(candidate, job), 60))

_calculate_job_fit(candidate, job) ==
    FloatAdd(FloatMul(skill_match(candidate, job), 60),
             FloatMul(exp_match(candidate, job), 40))

_find_skill_matches(candidate_skills, job_skills) ==
    ToSet(candidate_skills) \cap ToSet(job_skills)

\* ------------------------------------------------------ session memory
StageKeys == {"screening_result", "matching_result", "interview_questions"}

\* mutant: a key that is already there keeps its value
_save_to_memory_KeepFirst(mem, key, value) ==
    [k \in DOMAIN mem \cup {key} |-> IF k \in DOMAIN mem THEN mem[k] ELSE value]

_save_to_memory(mem, key, value) ==
    [k \in DOMAIN mem \cup {key} |-> IF k = key THEN value ELSE mem[k]]

\* --------------------------------------------------------------- stages
\* A stage takes and gives a context: the memory, the readings the clock
\* will give and the latest reading taken, the messages logged and the
\* stage results produced so far by the running call, and the outcome of
\* the last statement (a value returned or a KeyError raised).
Return(value) == [outcome |-> "return", value |-> value]

Raise(key) == [outcome |-> "raise", value |-> [exc |-> "KeyError", key |-> key]]

Enter(mem, t, clock) ==
    [mem |-> mem, clock |-> clock, now |-> t, log |-> <<>>, produced |-> <<>>,
     ret |-> Return(<<>>)]

\* datetime.now(): takes the next reading
Read(ctx) == [ctx EXCEPT !.now = Head(ctx.clock), !.clock = Tail(@)]

Done(ctx, key, result) ==
    [ctx EXCEPT !.mem = _save_to_memory(ctx.mem, key, result),
                !.produced = Append(@, [key |-> key, out |-> result]),
                !.ret = Return(result)]

screen_candidate(ctx, resume_text, job_description) ==
    LET logged == [ctx EXCEPT !.log = Append(@, <<"Screening candidate resume against job">>)]
        resume_skills == _extract_skills(resume_text)
        job_skills == _extract_job_requirements(job_description)
        match_score == _calculate_match_score(resume_skills, job_skills)
        read == Read(logged)
        screening_result ==
            [match_score |-> match_score,
             resume_skills |-> resume_skills,
             required_skills |-> job_skills,
             recommendation |-> Recommendation(match_score),
             timestamp |-> read.now]
    IN  Done(read, "screening_result", screening_result)

\* mutant: the cutoff is 40 and not strict
Qualifies_From40(score) == FloatLE(FloatOf(40), score)

\* score > 50
Qualifies(score) == FloatLT(FloatOf(50), score)

\* the first key of the match entry that the job dict lacks, if any
MatchKeys == <<"id", "title", "company", "required_skills">>

MissingKeys(job) == SelectSeq(MatchKeys, LAMBDA k : k \notin DOMAIN job)

\* the for loop of match_jobs from job i on: the matches, or the KeyError
RECURSIVE MatchLoop(_, _, _, _)
MatchLoop(candidate, job_database, i, matches) ==
    IF i > Len(job_database) THEN Return(matches)
    ELSE LET job == job_database[i]
             score == _calculate_job_fit(candidate, job)
         IN  IF ~Qualifies(score)
             THEN MatchLoop(candidate, job_database, i + 1, matches)
             ELSE IF MissingKeys(job) # <<>> THEN Raise(Head(MissingKeys(job)))
             ELSE MatchLoop(candidate, job_database, i + 1,
                     Append(matches,
                         [job_id |-> job["id"],
                          title |-> job["title"],
                          company |-> job["company"],
                          match_score |-> score,
                          key_matches |->
                              _find_skill_matches(candidate.skills, job["required_skills"])]))

\* mutant: x is put before the entries that score the same (not stable)
RECURSIVE InsertDesc_Unstable(_, _)
InsertDesc_Unstable(sorted, x) ==
    IF sorted = <<>> THEN <<x>>
    ELSE IF FloatLE(Head(sorted).match_score, x.match_score)
         THEN <<x>> \o sorted
         ELSE <<Head(sorted)>> \o InsertDesc_Unstable(Tail(sorted), x)

\* x put behind every entry of the descending list that scores at least x
RECURSIVE InsertDesc(_, _)
InsertDesc(sorted, x) ==
    IF sorted = <<>> THEN <<x>>
    ELSE IF FloatLT(Head(sorted).match_score, x.match_score)
         THEN <<x>> \o sorted
         ELSE <<Head(sorted)>> \o InsertDesc(Tail(sorted), x)

\* matches.sort(key=match_score, reverse=True): stable
RECURSIVE SortDesc(_)
SortDesc(matches) ==
    IF matches = <<>> THEN <<>>
    ELSE InsertDesc(SortDesc(SubSeq(matches, 1, Len(matches) - 1)), matches[Len(matches)])

\* matches[:3]
Top3(matches) == SubSeq(matches, 1, Min(3, Len(matches)))

match_jobs(ctx, candidate, job_database) ==
    LET logged == [ctx EXCEPT !.log = Append(@, <<"Matching jobs for candidate: ", candidate.name>>)]
        loop == MatchLoop(candidate, job_database, 1, <<>>)
    IN  IF loop.outcome = "raise" THEN [logged EXCEPT !.ret = loop]
        ELSE LET matches == SortDesc(loop.value)
                 read == Read(logged)
                 matching_result ==
                     [candidate_id |-> candidate.name,
                      total_matches_found |-> Len(matches),
                      top_matches |-> Top3(matches),
                      timestamp |-> read.now]
             IN  Done(read, "matching_result", matching_result)

\* candidate_skills[0] if candidate_skills else 'software development'
FirstSkill(candidate_skills) ==
    IF candidate_skills # <<>> THEN candidate_skills[1] ELSE "software development"

generate_interview(ctx, role_title, candidate_skills) ==
    LET logged == [ctx EXCEPT !.log = Append(@, <<"Generating interview questions for role: ", role_title>>)]
        questions ==
            << [id |-> 1, category |-> "Technical",
                question |-> <<"Describe your experience with ", FirstSkill(candidate_skills), "?">>],
               [id |-> 2, category |-> "Technical",
                question |-> <<"Walk us through a challenging project you've worked on.">>],
               [id |-> 3, category |-> "Behavioral",
                question |-> <<"How do you handle conflicts in a team environment?">>],
               [id |-> 4, category |-> "Behavioral",
                question |-> <<"Tell us about a time you failed and what you learned.">>],
               [id |-> 5, category |-> "Role-Specific",
                question |-> <<"Why are you interested in this ", role_title, " position?">>] >>
        read == Read(logged)
        interview_result ==
            [role |-> role_title,
             total_questions |-> Len(questions),
             questions |-> questions,
             difficulty_level |-> "MEDIUM",
             timestamp |-> read.now]
    IN  Done(read, "interview_questions", interview_result)

\* mutant: the run halts on every recommendation but PASS
Rejected_NotPass(screening) == screening.recommendation # "PASS"

\* screening["recommendation"] == "REJECT"
Rejected(screening) == screening.recommendation = "REJECT"

\* mutant: the last of the top matches is taken
BestMatch_Last(matching) == matching.top_matches[Len(matching.top_matches)]

\* matching["top_matches"][0]
BestMatch(matching) == matching.top_matches[1]

\* the interview step of full_workflow
InterviewStep(ctx, matching, candidate) ==
    IF matching.top_matches # <<>>
    THEN generate_interview(ctx, BestMatch(matching).title, candidate.skills)
    ELSE [ctx EXCEPT !.ret = Return([status |-> "NO_MATCHES"])]

full_workflow(ctx, candidate_data, job_description, jobs_db) ==
    IF "name" \notin DOMAIN candidate_data THEN [ctx EXCEPT !.ret = Raise("name")]
    ELSE
    LET started == [ctx EXCEPT !.log = Append(@, <<"Starting full workflow for: ", candidate_data["name"]>>)]
    IN
    IF "resume" \notin DOMAIN candidate_data THEN [started EXCEPT !.ret = Raise("resume")]
    ELSE
    LET screened == screen_candidate(started, candidate_data["resume"], job_description)
        screening == screened.ret.value
    IN
    IF Rejected(screening)
    THEN [screened EXCEPT
            !.log = Append(@, <<"Candidate ", candidate_data["name"], " rejected in screening">>),
            !.ret = Return([status |-> "REJECTED", stage |-> "screening", result |-> screening])]
    ELSE
    IF "email" \notin DOMAIN candidate_data THEN [screened EXCEPT !.ret = Raise("email")]
    ELSE
    LET candidate ==
            [name |-> candidate_data["name"],
             email |-> candidate_data["email"],
             resume_text |-> candidate_data["resume"],
             skills |-> Get(candidate_data, "skills", <<>>),
             experience_years |-> Get(candidate_data, "experience_years", Zero)]
        matched == match_jobs(screened, candidate, jobs_db)
    IN
    IF matched.ret.outcome = "raise" THEN matched
    ELSE
    LET matching == matched.ret.value
        interviewed == InterviewStep(matched, matching, candidate)
        read == Read(interviewed)
        workflow_result ==
            [candidate_name |-> candidate_data["name"],
             overall_status |-> "COMPLETED",
             screening |-> screening,
             matching |-> matching,
             interview |-> interviewed.ret.value,
             timestamp |-> read.now]
    IN  [read EXCEPT
            !.log = Append(@, <<"Workflow completed for ", candidate_data["name"]>>),
            !.ret = Return(workflow_result)]

\* --------------------------------------------------------------- inputs
Restrict(d, keys) == [k \in keys |-> d[k]]

RECURSIVE SeqsUpTo(_, _)
SeqsUpTo(S, n) ==
    IF n = 0 THEN {<<>>}
    ELSE LET shorter == SeqsUpTo(S, n - 1)
         IN  shorter \cup {Append(s, x) : s \in {q \in shorter : Len(q) = n - 1}, x \in S}

\* pieces of text; a keyword may lie inside a word, in another case, across
\* two pieces, or be spelled with a character outside ASCII
fCloud == <<"C","l","o","u","d"," ">>

fSql == <<"s","q","l">>

fRapid == <<"R","A","P","<U+0130>","D"," ","J","a","v","a","S","c","r","i","p","t"," ">>

fMachine == <<"M","A","C","H","I","N","E"," ">>

fLearning == <<"l","e","a","r","n","i","n","g">>

fKelvin == <<"D","o","c","<U+212A>","e","r">>

Fragments == {fCloud, fSql, fRapid, fMachine, fLearning, fKelvin}

Texts == {Concat(pieces) : pieces \in SeqsUpTo(Fragments, MaxFrags)}

\* the readings of n successive datetime.now() calls, none before `from`
Readings(from, n) ==
    {clock \in [1..n -> from..MaxTime] : \A i \in 1..(n - 1) : clock[i] <= clock[i + 1]}

Tags == {"Python", "SQL"}

SkillLists == SeqsUpTo(Tags, MaxSkills)

\* the skills of main()'s sample candidate
SampleSkills == <<"Python", "Machine Learning", "Cloud", "Docker", "SQL", "API">>

Experiences == {Years(halves) : halves \in 0..MaxExp}

\* job records without their id
DataEngineer ==
    [title |-> "Data Engineer", company |-> "DataFlow Inc",
     required_skills |-> <<"Python", "SQL">>, years_experience_required |-> 1]

BackendDeveloper == [title |-> "Backend Developer", company |-> "WebServices Ltd"]

Analyst == [title |-> "Analyst", company |-> "DataFlow Inc", required_skills |-> <<"SQL">>]

\* for the sample skills and 2 years these two score 6/7 * 60 + 2/4 * 40 and
\* 1/1 * 60 + 2/7 * 40: the same number, but not the same float
Architect ==
    [title |-> "Architect", company |-> "TechCorp",
     required_skills |-> SampleSkills \o <<"Java">>, years_experience_required |-> 4]

TeamLead ==
    [title |-> "Team Lead", company |-> "TechCorp",
     required_skills |-> <<"Python">>, years_experience_required |-> 7]

\* the jobs of the catalogs given to full_workflow
JobBodies == {BackendDeveloper, Analyst, Architect, TeamLead}

\* the jobs of the catalogs given to match_jobs alone
MatchBodies == {Analyst, Architect, TeamLead}

\* a job list: the i-th job has id i
Catalog(bodies) == [i \in 1..Len(bodies) |-> bodies[i] @@ [id |-> i]]

Catalogs(pool, n) == {Catalog(bodies) : bodies \in SeqsUpTo(pool, n)}

\* every job of the catalog with absent fields written out as empty / zero
WrittenOut(db) ==
    [i \in 1..Len(db) |->
        db[i] @@ [required_skills |-> <<>>, years_experience_required |-> 0]]

WorkflowSkills == {<<>>, <<"SQL", "Python">>, SampleSkills}

Profiles ==
    { [name |-> "Alice Johnson", email |-> "alice@example.com", resume_text |-> fSql,
       skills |-> sk, experience_years |-> e] : sk \in WorkflowSkills, e \in Experiences }

CandidateKeys == {"name", "email", "resume", "skills", "experience_years"}

RequiredKeys == {"name", "email", "resume"}

\* candidate_data dicts: the full dicts, and each with up to MaxMissing keys left out
Leaving(full) ==
    { Restrict(cd, CandidateKeys \ out) :
        cd \in full, out \in {m \in SUBSET CandidateKeys : Cardinality(m) <= MaxMissing} }

WorkflowResumes == {fCloud \o fSql, fSql, fMachine}

WorkflowJobDescriptions == {fCloud \o fSql, <<>>}

\* no experience, one and a half years, two years
WorkflowExperiences == {Zero, FloatDiv(FloatOf(3), 2), FloatOf(2)}

WorkflowCandidates ==
    Leaving({ [name |-> "Alice Johnson", email |-> "alice@example.com", resume |-> r,
               skills |-> sk, experience_years |-> e] :
              r \in WorkflowResumes, sk \in WorkflowSkills, e \in WorkflowExperiences })

\* the calls of the one-call specifications
ScreenInputs ==
    [op : {"screen_candidate"}, resume_text : Texts, job_description : Texts,
     clock : Readings(0, 1)]

FitInputs ==
    { [op |-> "_calculate_job_fit",
       candidate |-> [skills |-> sk, experience_years |-> e],
       job |-> Restrict([required_skills |-> rs, years_experience_required |-> y], keys)] :
      sk \in SkillLists, e \in Experiences, rs \in SkillLists, y \in 0..MaxYears,
      keys \in SUBSET {"required_skills", "years_experience_required"} }
    \cup
    { [op |-> "_calculate_job_fit",
       candidate |-> [skills |-> c.skills, experience_years |-> c.experience_years],
       job |-> job] : c \in Profiles, job \in JobBodies }

MatchInputs ==
    [op : {"match_jobs"}, candidate : Profiles, job_database : Catalogs(MatchBodies, MaxJobs),
     clock : Readings(0, 1)]

WorkflowInputs ==
    [op : {"full_workflow"}, candidate_data : WorkflowCandidates,
     job_description : WorkflowJobDescriptions, jobs_db : Catalogs(JobBodies, MaxCatalog),
     clock : Readings(0, 4)]

\* the calls made on one instance, one after another
SessionResumes == {fCloud \o fSql, fSql, fMachine}

SessionJobDescriptions == {fCloud \o fSql}

SessionProfiles == {c \in Profiles : c.experience_years = FloatOf(1) /\ Len(c.skills) <= 1}

SessionCatalogs == {Catalog(<<>>), Catalog(<<DataEngineer, TeamLead>>)}

SessionCandidates ==
    { [name |-> "Alice Johnson", email |-> "alice@example.com", resume |-> r,
       skills |-> sk, experience_years |-> FloatOf(1)] :
      r \in SessionResumes, sk \in {<<>>, <<"Python">>} }

SessionRoles == {"Data Engineer"}

\* -------------------------------------------------------------- actions
NoCall == [op |-> "none", outcome |-> "none", value |-> <<>>]

Finish(op, ctx) ==
    /\ session_state' = ctx.mem
    /\ ret' = [op |-> op, outcome |-> ctx.ret.outcome, value |-> ctx.ret.value]
    /\ log' = ctx.log
    /\ produced' = ctx.produced
    /\ now' = ctx.now
    /\ UNCHANGED input

Screen(resume_text, job_description, clock) ==
    Finish("screen_candidate",
           screen_candidate(Enter(session_state, now, clock), resume_text, job_description))

Match(candidate, job_database, clock) ==
    Finish("match_jobs",
           match_jobs(Enter(session_state, now, clock), candidate, job_database))

Interview(role_title, candidate_skills, clock) ==
    Finish("generate_interview",
           generate_interview(Enter(session_state, now, clock), role_title, candidate_skills))

Workflow(candidate_data, job_description, jobs_db, clock) ==
    Finish("full_workflow",
           full_workflow(Enter(session_state, now, clock),
                         candidate_data, job_description, jobs_db))

get_session_state ==
    /\ ret' = [op |-> "get_session_state", outcome |-> "return", value |-> session_state]
    /\ log' = <<>>
    /\ produced' = <<>>
    /\ UNCHANGED <<session_state, now, input>>

JobFit(candidate, job) ==
    /\ ret' = [op |-> "_calculate_job_fit", outcome |-> "return",
               value |-> _calculate_job_fit(candidate, job)]
    /\ log' = <<>>
    /\ produced' = <<>>
    /\ UNCHANGED <<session_state, now, input>>

\* ------------------------------------------------------- specifications
\* __init__
Constructed ==
    /\ session_state = <<>>
    /\ ret = NoCall
    /\ log = <<>>
    /\ produced = <<>>
    /\ now = 0

\* one instance, any sequence of calls, the clock read as often as each call reads it
Init ==
    /\ Constructed
    /\ input = [op |-> "any"]

Next ==
    \/ \E r \in SessionResumes, jd \in SessionJobDescriptions, clock \in Readings(now, 1) :
           Screen(r, jd, clock)
    \/ \E c \in SessionProfiles, db \in SessionCatalogs, clock \in Readings(now, 1) :
           Match(c, db, clock)
    \/ \E role \in SessionRoles, sk \in {c.skills : c \in SessionProfiles},
          clock \in Readings(now, 1) :
           Interview(role, sk, clock)
    \/ \E cd \in SessionCandidates, jd \in SessionJobDescriptions, db \in SessionCatalogs,
          clock \in Readings(now, 4) :
           Workflow(cd, jd, db, clock)
    \/ get_session_state

Spec == Init /\ [][Next]_vars

\* one call on a new instance
InitCall(inputs) ==
    /\ Constructed
    /\ input \in inputs

InitScreen == InitCall(ScreenInputs)

NextScreen ==
    ret = NoCall /\ Screen(input.resume_text, input.job_description, input.clock)

SpecScreen == InitScreen /\ [][NextScreen]_vars

InitFit == InitCall(FitInputs)

NextFit == ret = NoCall /\ JobFit(input.candidate, input.job)

SpecFit == InitFit /\ [][NextFit]_vars

InitMatch == InitCall(MatchInputs)

NextMatch == ret = NoCall /\ Match(input.candidate, input.job_database, input.clock)

SpecMatch == InitMatch /\ [][NextMatch]_vars

InitWorkflow == InitCall(WorkflowInputs)

NextWorkflow ==
    /\ ret = NoCall
    /\ Workflow(input.candidate_data, input.job_description, input.jobs_db, input.clock)

SpecWorkflow == InitWorkflow /\ [][NextWorkflow]_vars

\* --------------------------------------------------------------- claims
Called(op) == ret.op = op

Returned == ret.outcome = "return"

Raised == ret.outcome = "raise"

\* full_workflow returned {status: REJECTED, stage: "screening", result}
ReturnedRejected ==
    /\ Called("full_workflow") /\ Returned
    /\ DOMAIN ret.value = {"status", "stage", "result"}
    /\ ret.value.status = "REJECTED"
    /\ ret.value.stage = "screening"

\* full_workflow returned the combined result
ReturnedCompleted ==
    /\ Called("full_workflow") /\ Returned
    /\ DOMAIN ret.value =
          {"candidate_name", "overall_status", "screening", "matching", "interview", "timestamp"}
    /\ ret.value.overall_status = "COMPLETED"

Logged(prefix) == \E i \in 1..Len(log) : log[i][1] = prefix

NoMatches == [status |-> "NO_MATCHES"]

HoldsRequired(candidate_data) == RequiredKeys \subseteq DOMAIN candidate_data

Above50(score) == FloatLT(FloatOf(50), score)

AtLeast(score, n) == FloatLE(FloatOf(n), score)

AtMost(score, n) == FloatLE(score, FloatOf(n))

\* the value of a, which fits an integer
RECURSIVE BigInt(_)
BigInt(a) == IF a = <<>> THEN 0 ELSE Head(a) + Limb * BigInt(Tail(a))

\* the whole thousandths in x: floor(x * 1000), for x < 2^20
Thousandths(x) ==
    LET m == BigMul(x.man, 1000)
    IN  BigInt(IF x.exp >= 0 THEN BigShl(m, x.exp) ELSE BigShr(m, -x.exp))

\* C6: the recommendation of a screening result is PASS iff its score is at
\* least 70, REVIEW iff the score is in [50, 70), REJECT iff it is below 50,
\* where the score is 100 * |resume skills /\ required skills| / |required
\* skills| (as a float: to the thousandth, and on the same side of 50 and of
\* 70 as the exact quotient), and 0 (hence REJECT) when no required skill is
\* extracted.
C6_RecommendationByScore ==
    Called("screen_candidate") =>
        LET r == ret.value
            S == ToSet(r.resume_skills)
            R == ToSet(r.required_skills)
            hits == Cardinality(S \cap R)
            score == r.match_score
        IN  /\ Returned
            /\ Cardinality(R) = Len(r.required_skills)
            /\ R = {} => score = Zero /\ r.recommendation = "REJECT"
            /\ R # {} =>
                  /\ Thousandths(score) - (100000 * hits) \div Cardinality(R) \in {-1, 0, 1}
                  /\ AtLeast(score, 70) <=> 100 * hits >= 70 * Cardinality(R)
                  /\ AtLeast(score, 50) <=> 100 * hits >= 50 * Cardinality(R)
            /\ r.recommendation = "PASS" <=> AtLeast(score, 70)
            /\ r.recommendation = "REVIEW" <=> AtLeast(score, 50) /\ ~AtLeast(score, 70)
            /\ r.recommendation = "REJECT" <=> ~AtLeast(score, 50)

\* a resume that spells Docker with a KELVIN SIGN has two skills, one of the
\* two required, and is scored exactly 50: REVIEW
C6_Witness ==
    /\ Called("screen_candidate")
    /\ ret.value.match_score = FloatOf(50)
    /\ ret.value.recommendation = "REVIEW"
    /\ Len(ret.value.resume_skills) > 1
    /\ "<U+212A>" \in ToSet(input.resume_text)
    /\ "Docker" \in ToSet(ret.value.resume_skills)

\* C7: job_fit_score lies in [0, 100], its skill part is at most 60 and its
\* experience part at most 40 however large the experience, and it is 0 when
\* the candidate shares no skill with the job and has no experience.
C7_JobFitRange ==
    Called("_calculate_job_fit") =>
        LET c == input.candidate
            job == input.job
            score == ret.value
            shared == ToSet(c.skills) \cap ToSet(Get(job, "required_skills", <<>>))
            skill_part == FloatMul(skill_match(c, job), 60)
            exp_part == FloatMul(exp_match(c, job), 40)
        IN  /\ AtLeast(score, 0)
            /\ AtMost(score, 100)
            /\ AtMost(skill_part, 60)
            /\ AtMost(exp_part, 40)
            /\ (shared = {} /\ c.experience_years = Zero) => score = Zero

\* a candidate with more experience than required, and every required skill, scored 100
C7_Witness ==
    /\ Called("_calculate_job_fit")
    /\ "years_experience_required" \in DOMAIN input.job
    /\ input.job.years_experience_required >= 1
    /\ FloatLT(FloatOf(input.job.years_experience_required), input.candidate.experience_years)
    /\ ret.value = FloatOf(100)

\* C2: top_matches is the first min(3, n) of the n jobs scoring above 50,
\* by score descending, equal scores in catalog order: entry k is the
\* qualifying job that exactly k - 1 qualifying jobs come ahead of.  (The
\* i-th job of a catalog has id i; the scores are the floats computed.)
C2_TopMatches ==
    Called("match_jobs") =>
        LET c == input.candidate
            db == input.job_database
            top == ret.value.top_matches
            score == [i \in 1..Len(db) |-> _calculate_job_fit(c, db[i])]
            Q == {i \in 1..Len(db) : Above50(score[i])}
            Ahead(i, j) == FloatLT(score[j], score[i]) \/ (score[i] = score[j] /\ i < j)
            Rank(j) == Cardinality({i \in Q : Ahead(i, j)}) + 1
        IN  /\ Returned
            /\ Len(top) = Min(3, Cardinality(Q))
            /\ \A k \in 1..Len(top) :
                  /\ top[k].job_id \in Q
                  /\ Rank(top[k].job_id) = k
                  /\ top[k].match_score = score[top[k].job_id]
                  /\ top[k].title = db[top[k].job_id].title
                  /\ Above50(top[k].match_score)
            /\ \A k \in 1..(Len(top) - 1) : FloatLE(top[k + 1].match_score, top[k].match_score)

\* more than three jobs qualified, two listed ones tie, the best is not the
\* first job, and the first job is left out for a score that is less than
\* the last listed one only by rounding
C2_Witness ==
    /\ Called("match_jobs") /\ Returned
    /\ ret.value.total_matches_found > 3
    /\ Len(ret.value.top_matches) = 3
    /\ ret.value.top_matches[1].job_id > 1
    /\ ret.value.top_matches[2].match_score = ret.value.top_matches[3].match_score
    /\ FloatLT(ret.value.top_matches[2].match_score, ret.value.top_matches[1].match_score)
    /\ \A k \in 1..3 : ret.value.top_matches[k].job_id # 1
    /\ LET first == _calculate_job_fit(input.candidate, input.job_database[1])
       IN  /\ Above50(first)
           /\ FloatLT(first, ret.value.top_matches[3].match_score)
           /\ Thousandths(first) = Thousandths(ret.value.top_matches[3].match_score)

\* C1: for a candidate holding name, email and resume, full_workflow returns
\* the REJECTED outcome iff the screening recommendation is REJECT; then the
\* match and interview stages are not run and leave nothing in memory; in
\* every other case the match stage runs and the result is COMPLETED with
\* the screening, matching and interview outputs.
C1_HaltsIffReject ==
    (Called("full_workflow") /\ HoldsRequired(input.candidate_data)) =>
        LET S == ToSet(_extract_skills(input.candidate_data["resume"]))
            R == ToSet(_extract_job_requirements(input.job_description))
            reject == 100 * Cardinality(S \cap R) < 50 * Cardinality(R) \/ R = {}
        IN  /\ Returned
            /\ produced # <<>> /\ produced[1].key = "screening_result"
            /\ produced[1].out.recommendation = "REJECT" <=> reject
            /\ ReturnedRejected <=> reject
            /\ reject =>
                  /\ ret.value.result = produced[1].out
                  /\ Len(produced) = 1
                  /\ ~Logged("Matching jobs for candidate: ")
                  /\ ~Logged("Generating interview questions for role: ")
                  /\ DOMAIN session_state = {"screening_result"}
            /\ ~reject =>
                  /\ ReturnedCompleted
                  /\ Logged("Matching jobs for candidate: ")
                  /\ Len(produced) >= 2 /\ produced[2].key = "matching_result"
                  /\ ret.value.screening = produced[1].out
                  /\ ret.value.matching = produced[2].out

\* a run was halted at screening for a candidate that holds every key
C1_Witness ==
    /\ ReturnedRejected
    /\ DOMAIN input.candidate_data = CandidateKeys
    /\ input.jobs_db # <<>>
    /\ input.job_description # <<>>

\* C5: for a candidate holding name, email and resume, full_workflow returns
\* REJECTED or COMPLETED also with an empty catalog, no required skill in
\* the job description, no candidate skills and jobs without required_skills
\* or years_experience_required; an absent job field gives the result that
\* the empty list / zero gives.
C5_DegenerateInputs ==
    (Called("full_workflow") /\ HoldsRequired(input.candidate_data)) =>
        /\ Returned
        /\ ReturnedRejected \/ ReturnedCompleted
        /\ ret.value =
              full_workflow(Enter(<<>>, 0, input.clock),
                            input.candidate_data, input.job_description,
                            WrittenOut(input.jobs_db)).ret.value

\* a run completed for an experienced candidate on a catalog with a job that has neither field
C5_Witness ==
    /\ ReturnedCompleted
    /\ AtLeast(Get(input.candidate_data, "experience_years", Zero), 2)
    /\ \E i \in 1..Len(input.jobs_db) :
           DOMAIN input.jobs_db[i] = {"id", "title", "company"}
    /\ \E i \in 1..Len(input.jobs_db) :
           /\ "required_skills" \in DOMAIN input.jobs_db[i]
           /\ "years_experience_required" \notin DOMAIN input.jobs_db[i]

\* C8: in a run that reaches the interview step, the interview output is a
\* plan of exactly 5 questions whose role is the title of the first top
\* match (no job scores higher, none that scores the same is listed
\* earlier) if there is a top match, and {status: NO_MATCHES} if there is
\* none; the run ends COMPLETED either way.
C8_InterviewOutput ==
    (Called("full_workflow") /\ Returned /\ ~ReturnedRejected) =>
        /\ ReturnedCompleted
        /\ LET top == ret.value.matching.top_matches
               interview == ret.value.interview
               db == input.jobs_db
               c == [skills |-> Get(input.candidate_data, "skills", <<>>),
                     experience_years |-> Get(input.candidate_data, "experience_years", Zero)]
               score == [i \in 1..Len(db) |-> _calculate_job_fit(c, db[i])]
           IN  IF top # <<>>
               THEN /\ DOMAIN interview =
                          {"role", "total_questions", "questions", "difficulty_level", "timestamp"}
                    /\ Len(interview.questions) = 5
                    /\ interview.total_questions = 5
                    /\ interview.role = top[1].title
                    /\ interview.role = db[top[1].job_id].title
                    /\ \A i \in 1..Len(db) : FloatLE(score[i], score[top[1].job_id])
                    /\ \A i \in 1..(top[1].job_id - 1) : score[i] # score[top[1].job_id]
               ELSE interview = NoMatches

\* a plan was made for the second job of the catalog, which outranks the
\* first only by the rounding of the scores
C8_Witness ==
    /\ ReturnedCompleted
    /\ Len(ret.value.matching.top_matches) = 2
    /\ ret.value.matching.top_matches[1].job_id = 2
    /\ Thousandths(ret.value.matching.top_matches[1].match_score) =
           Thousandths(ret.value.matching.top_matches[2].match_score)
    /\ ret.value.interview # NoMatches
    /\ ret.value.interview.role = input.jobs_db[2].title
    /\ input.jobs_db[1].title # input.jobs_db[2].title

\* C10 as stated: every listed job shares a skill with the candidate, the
\* fallback question is never produced by full_workflow, and a run for a
\* candidate (holding name, email and resume) without skills ends with the
\* NO_MATCHES sentinel.
C10_AsStated ==
    (Called("full_workflow") /\ HoldsRequired(input.candidate_data)) =>
        /\ \A i \in 1..Len(produced) :
              /\ produced[i].key = "matching_result" =>
                    \A k \in 1..Len(produced[i].out.top_matches) :
                        produced[i].out.top_matches[k].key_matches # {}
              /\ produced[i].key = "interview_questions" =>
                    produced[i].out.questions[1].question[2] # "software development"
        /\ Get(input.candidate_data, "skills", <<>>) = <<>> =>
              /\ Returned
              /\ "interview" \in DOMAIN ret.value
              /\ ret.value.interview = NoMatches

\* C10, amended: every job that match_jobs lists within a full_workflow run
\* shares at least one skill with the candidate; the "software development"
\* fallback question is never produced by full_workflow; and every run for
\* a candidate without skills that is not rejected at screening (returns
\* COMPLETED) has the NO_MATCHES sentinel as its interview output.
C10_NoMatchWithoutSkill ==
    Called("full_workflow") =>
        /\ \A i \in 1..Len(produced) :
              /\ produced[i].key = "matching_result" =>
                    \A k \in 1..Len(produced[i].out.top_matches) :
                        LET m == produced[i].out.top_matches[k]
                        IN  /\ m.key_matches # {}
                            /\ m.key_matches \subseteq
                                   ToSet(Get(input.candidate_data, "skills", <<>>))
                            /\ "required_skills" \in DOMAIN input.jobs_db[m.job_id]
                            /\ m.key_matches \subseteq
                                   ToSet(input.jobs_db[m.job_id].required_skills)
              /\ produced[i].key = "interview_questions" =>
                    /\ produced[i].out.questions[1].question[2] # "software development"
                    /\ produced[i].out.questions[1].question[2] =
                           input.candidate_data["skills"][1]
        /\ (ReturnedCompleted /\ Get(input.candidate_data, "skills", <<>>) = <<>>) =>
              /\ ret.value.interview = NoMatches
              /\ ret.value.matching.top_matches = <<>>
              /\ ret.value.matching.total_matches_found = 0

\* a candidate without skills, with all the experience a job of the catalog asks for, completed a run
C10_Witness ==
    /\ ReturnedCompleted
    /\ Get(input.candidate_data, "skills", <<>>) = <<>>
    /\ ret.value.interview = NoMatches
    /\ \E i \in 1..Len(input.jobs_db) :
           /\ Get(input.jobs_db[i], "required_skills", <<>>) = <<>>
           /\ AtLeast(Get(input.candidate_data, "experience_years", Zero),
                      Max(1, Get(input.jobs_db[i], "years_experience_required", 1)))

\* C4 as stated: a candidate_data that lacks name, email or resume makes
\* full_workflow raise; it returns neither REJECTED nor COMPLETED.
C4_MissingFieldRaises ==
    (Called("full_workflow") /\ ~HoldsRequired(input.candidate_data)) =>
        /\ Raised
        /\ ~ReturnedRejected
        /\ ~ReturnedCompleted

\* C3 as stated: when full_workflow returns COMPLETED, memory holds under the
\* three stage keys the screening, matching and interview outputs of the
\* returned result.
C3_MemoryHoldsOutputs ==
    ReturnedCompleted =>
        /\ StageKeys \subseteq DOMAIN session_state
        /\ session_state["screening_result"] = ret.value.screening
        /\ session_state["matching_result"] = ret.value.matching
        /\ session_state["interview_questions"] = ret.value.interview

\* the last result that the call making this step produced for the key, if any
LastProduced(key) ==
    LET outs == SelectSeq(produced', LAMBDA p : p.key = key)
    IN  IF outs = <<>> THEN <<>> ELSE <<outs[Len(outs)].out>>

\* C9: session memory starts empty; its keys are always among the three
\* stage keys and none is ever lost; after every call each key holds the
\* result of the latest run of its stage (the one this call produced, else
\* the one it held before); get_session_state returns this mapping.
C9_SessionMemory ==
    /\ session_state = <<>>
    /\ [][ /\ DOMAIN session_state' \subseteq StageKeys
           /\ DOMAIN session_state \subseteq DOMAIN session_state'
           /\ \A key \in StageKeys :
                 IF LastProduced(key) # <<>>
                 THEN key \in DOMAIN session_state'
                      /\ session_state'[key] = LastProduced(key)[1]
                 ELSE key \in DOMAIN session_state' =>
                          /\ key \in DOMAIN session_state
                          /\ session_state'[key] = session_state[key]
           /\ ret'.op = "get_session_state" =>
                 /\ ret'.value = session_state'
                 /\ session_state' = session_state ]_vars

\* memory holds all three keys, and a later screening has replaced an earlier one
C9_Witness ==
    /\ DOMAIN session_state = StageKeys
    /\ Called("screen_candidate")
    /\ session_state["screening_result"] = ret.value
    /\ session_state["screening_result"].timestamp > session_state["matching_result"].timestamp
    /\ session_state["interview_questions"].timestamp = 0

====
